---- MODULE Spec2Model ----
(***************************************************************************)
(* A model of fops (src/src/fops): the archive builder create_archive, its *)
(* command-line wrapper, the confirmation prompt, the two branch-deleting  *)
(* functions and the cache sweep clear_cache.                              *)
(*                                                                         *)
(* Strings are sequences of character codes, so that str.lower, str.strip, *)
(* string comparison, glob matching and PurePath.stem/.name are computed   *)
(* character by character, as Python computes them.  A relative path is a  *)
(* sequence of such strings (its components).                              *)
(***************************************************************************)
EXTENDS Integers, Sequences, FiniteSets, TLC

----------------------------------------------------------------------------
(* Strings                                                                 *)

\* "/" , "." and "*" as one-character strings
SEP == <<47>>
DOT == <<46>>
STAR == <<42>>

\* s[i..j], empty when i > j
Slice(s, i, j) == [k \in 1..(j - i + 1) |-> s[i + k - 1]]

\* Python's str < str: comparison by code point, a proper prefix is smaller
RECURSIVE StrLess(_, _)
StrLess(a, b) ==
    IF b = <<>> THEN FALSE
    ELSE IF a = <<>> THEN TRUE
    ELSE IF a[1] # b[1] THEN a[1] < b[1]
    ELSE StrLess(Tail(a), Tail(b))

\* str.lower() on ASCII: 'A'..'Z' is mapped to 'a'..'z'
Lower(s) == [i \in 1..Len(s) |-> IF s[i] \in 65..90 THEN s[i] + 32 ELSE s[i]]

\* the ASCII whitespace str.strip() removes
IsSpace(c) == c \in {32, 9, 10, 11, 12, 13}

RECURSIVE LStrip(_)
LStrip(s) == IF s # <<>> /\ IsSpace(s[1]) THEN LStrip(Tail(s)) ELSE s

RECURSIVE RStrip(_)
RStrip(s) ==
    IF s # <<>> /\ IsSpace(s[Len(s)]) THEN RStrip(Slice(s, 1, Len(s) - 1)) ELSE s

\* str.strip()
Strip(s) == RStrip(LStrip(s))

\* the index of the last c in s, 0 when there is none (str.rfind, 1-based)
RECURSIVE RFind(_, _)
RFind(s, c) ==
    IF s = <<>> THEN 0
    ELSE IF s[Len(s)] = c THEN Len(s)
    ELSE RFind(Slice(s, 1, Len(s) - 1), c)

\* s.split("/"): the pieces between separators, empty pieces included
RECURSIVE SplitSep(_, _)
SplitSep(s, acc) ==
    IF s = <<>> THEN <<acc>>
    ELSE IF s[1] = SEP[1] THEN <<acc>> \o SplitSep(Tail(s), <<>>)
    ELSE SplitSep(Tail(s), Append(acc, s[1]))

\* "/".join(parts)
RECURSIVE JoinSep(_)
JoinSep(parts) ==
    IF parts = <<>> THEN <<>>
    ELSE IF Len(parts) = 1 THEN parts[1]
    ELSE parts[1] \o SEP \o JoinSep(Tail(parts))

\* the components a path keeps: neither empty nor "."
RECURSIVE SelectParts(_)
SelectParts(parts) ==
    IF parts = <<>> THEN <<>>
    ELSE IF parts[1] = <<>> \/ parts[1] = DOT THEN SelectParts(Tail(parts))
    ELSE <<parts[1]>> \o SelectParts(Tail(parts))

\* PurePosixPath(s).parts without the root: empty and "." components are dropped
PathParts(s) == SelectParts(SplitSep(s, <<>>))

\* PurePosixPath(s).name: the final component, "" when there is none
PathName(s) ==
    LET parts == PathParts(s)
    IN IF parts = <<>> THEN <<>> ELSE parts[Len(parts)]

\* str(PurePosixPath(s)): the components joined again, "." for the empty path
PathStr(s) ==
    LET parts == PathParts(s)
        root == IF s # <<>> /\ s[1] = SEP[1] THEN SEP ELSE <<>>
    IN IF parts = <<>> /\ root = <<>> THEN DOT ELSE root \o JoinSep(parts)

\* PurePath.stem: the name without its last suffix; a leading or a trailing
\* dot starts no suffix
Stem(name) ==
    LET i == RFind(name, DOT[1])
    IN IF 1 < i /\ i < Len(name) THEN Slice(name, 1, i - 1) ELSE name

\* the index of the "]" that closes the character class opened at pat[1],
\* 0 when pat[1] opens none; a "]" right after the "[" is a member
ClassEnd(pat) ==
    IF pat = <<>> \/ pat[1] # 91 THEN 0
    ELSE LET ends == {j \in 3..Len(pat) : pat[j] = 93}
         IN  IF ends = {} THEN 0
             ELSE CHOOSE j \in ends : \A k \in ends : j <= k

\* fnmatch of one path component: "*" matches any run of characters, "[...]"
\* one character of those listed (classes without ranges or negation)
RECURSIVE FnMatch(_, _)
FnMatch(pat, name) ==
    IF pat = <<>> THEN name = <<>>
    ELSE IF pat[1] = STAR[1]
         THEN \/ FnMatch(Tail(pat), name)
              \/ name # <<>> /\ FnMatch(pat, Tail(name))
    ELSE IF ClassEnd(pat) # 0
         THEN /\ name # <<>>
              /\ name[1] \in {pat[k] : k \in 2..(ClassEnd(pat) - 1)}
              /\ FnMatch(Slice(pat, ClassEnd(pat) + 1, Len(pat)), Tail(name))
    ELSE /\ name # <<>>
         /\ name[1] = pat[1]
         /\ FnMatch(Tail(pat), Tail(name))

----------------------------------------------------------------------------
(* Directory trees                                                         *)
(*                                                                         *)
(* A tree maps the relative path of every entry below a directory to       *)
(* [kind, data]: kind is "file", "dir", "symlink" or "fifo"; data is a     *)
(* file's content or a link's raw target string.                           *)

EmptyTree == [p \in {} |-> [kind |-> "dir", data |-> <<>>]]

Dir == [kind |-> "dir", data |-> <<>>]
File(content) == [kind |-> "file", data |-> content]
Symlink(target) == [kind |-> "symlink", data |-> target]
Fifo == [kind |-> "fifo", data |-> <<>>]

Parent(p) == SubSeq(p, 1, Len(p) - 1)
Prefixes(p) == {SubSeq(p, 1, k) : k \in 1..Len(p)}

\* lstat: the kind of the entry itself, "none" when there is no entry
Kind(tree, p) == IF p \in DOMAIN tree THEN tree[p].kind ELSE "none"

\* stat: the kind after following symbolic links (a link's target is taken
\* relative to the link's directory); "none" for a dangling link or a loop
RECURSIVE StatKind(_, _, _)
StatKind(tree, p, fuel) ==
    IF Kind(tree, p) # "symlink" THEN Kind(tree, p)
    ELSE IF fuel = 0 THEN "none"
    ELSE StatKind(tree, Parent(p) \o PathParts(tree[p].data), fuel - 1)

\* Path.is_dir, Path.is_file, Path.exists follow links; Path.is_symlink does not
is_dir(tree, p) == StatKind(tree, p, Cardinality(DOMAIN tree)) = "dir"
is_file(tree, p) == StatKind(tree, p, Cardinality(DOMAIN tree)) = "file"
exists(tree, p) == StatKind(tree, p, Cardinality(DOMAIN tree)) # "none"
is_symlink(tree, p) == Kind(tree, p) = "symlink"

\* whether the components segs, below the directory base, match the pattern
\* components comps; "**" matches any run of real (not linked) directories
RECURSIVE MatchComps(_, _, _, _)
MatchComps(tree, comps, base, segs) ==
    IF comps = <<>> THEN segs = <<>>
    ELSE IF comps[1] = STAR \o STAR
         THEN \/ MatchComps(tree, Tail(comps), base, segs)
              \/ /\ segs # <<>>
                 /\ Kind(tree, Append(base, segs[1])) = "dir"
                 /\ MatchComps(tree, comps, Append(base, segs[1]), Tail(segs))
    ELSE /\ segs # <<>>
         /\ FnMatch(comps[1], segs[1])
         /\ MatchComps(tree, Tail(comps), Append(base, segs[1]), Tail(segs))

\* dir_path.rglob(pattern): glob("**/" + pattern), as a set of relative paths
rglob(tree, pattern) ==
    {p \in DOMAIN tree :
        MatchComps(tree, <<STAR \o STAR>> \o PathParts(pattern), <<>>, p)}

\* str(p.relative_to(dir_path))
RelStr(p) == JoinSep(p)

\* sorted() left out: the paths in the order the set yields them
UnsortedPaths(seq) == seq

RECURSIVE InsertByRel(_, _)
InsertByRel(sorted, p) ==
    IF sorted = <<>> THEN <<p>>
    ELSE IF StrLess(RelStr(p), RelStr(sorted[1])) THEN <<p>> \o sorted
    ELSE <<sorted[1]>> \o InsertByRel(Tail(sorted), p)

RECURSIVE SortByRel(_, _)
SortByRel(seq, acc) ==
    IF seq = <<>> THEN acc ELSE SortByRel(Tail(seq), InsertByRel(acc, seq[1]))

\* sorted(matched, key=lambda p: str(p.relative_to(dir_path))): a stable sort
SortedPaths(seq) == SortByRel(seq, <<>>)

\* the order in which iterating the set `matched` yields its elements: not
\* fixed by the language, here the order the paths have in `order`
IterateSet(set, order) == SelectSeq(order, LAMBDA p : p \in set)

\* lines 118 and 134-136: the default pattern, then the union of the matches
EffectivePatterns(patterns) ==
    IF patterns = <<>> THEN <<STAR \o STAR \o SEP \o STAR>> ELSE patterns

Matched(tree, patterns) ==
    UNION {rglob(tree, EffectivePatterns(patterns)[i]) :
              i \in 1..Len(EffectivePatterns(patterns))}

\* lines 134-139: the Ordered Match List
OrderedMatchList(tree, patterns, order) ==
    SortedPaths(IterateSet(Matched(tree, patterns), order))

----------------------------------------------------------------------------
(* Staging                                                                 *)

\* Path.mkdir(parents=True, exist_ok=True) succeeds unless a component of the
\* path exists and is no directory
MkdirOk(st, p) == \A q \in Prefixes(p) \cap DOMAIN st : is_dir(st, q)

MkdirP(st, p) == [q \in Prefixes(p) \ DOMAIN st |-> Dir] @@ st

\* tree with the entry at p removed / set
Remove(st, p) == [q \in DOMAIN st \ {p} |-> st[q]]
Put(st, p, e) == [q \in {p} |-> e] @@ Remove(st, p)

\* the loop body without the is_symlink branch of lines 158-162: a link to a
\* file is copied as the file it points to, a dangling link is skipped
StageNoLinkBranch(src, st, p) ==
    IF is_dir(src, p) THEN MkdirP(st, p)
    ELSE IF is_file(src, p)
         THEN Put(MkdirP(st, Parent(p)), p,
                  IF is_symlink(src, p)
                  THEN src[Parent(p) \o PathParts(src[p].data)]
                  ELSE src[p])
    ELSE MkdirP(st, Parent(p))

\* lines 151-168, one iteration of the loop: the staging tree after src_path
\* = p has been processed
StageOne(src, st, p) ==
    IF is_dir(src, p) THEN MkdirP(st, p)
    ELSE LET st1 == MkdirP(st, Parent(p))
         IN IF is_symlink(src, p)
            THEN Put(st1, p, Symlink(src[p].data))
            ELSE IF is_file(src, p) THEN Put(st1, p, src[p])
            ELSE st1

\* whether that iteration can succeed: the directories can be made, and what
\* occupies the staged path of a link or a file is no directory (unlink and
\* copy2 fail on one)
StageOk(src, st, p) ==
    IF is_dir(src, p) THEN MkdirOk(st, p)
    ELSE /\ MkdirOk(st, Parent(p))
         /\ (is_symlink(src, p) \/ is_file(src, p)) => Kind(st, p) # "dir"

\* shutil.move in the place of copy2: the staged file leaves the source
SourceAfterMove(src, p) ==
    IF ~is_dir(src, p) /\ ~is_symlink(src, p) /\ is_file(src, p)
    THEN Remove(src, p) ELSE src

\* lines 152-165: the source tree after one iteration; mkdir, readlink,
\* symlink and copy2 read the source and write only under the Staging Root
SourceAfterStage(src, p) == src

\* the whole loop of lines 143-168 when no step fails
RECURSIVE StageAll(_, _, _)
StageAll(src, st, ps) ==
    IF ps = <<>> THEN st ELSE StageAll(src, StageOne(src, st, ps[1]), Tail(ps))

----------------------------------------------------------------------------
(* The inputs of create_archive                                            *)

\* the most entries a source tree holds, and the most patterns a call gives
MaxEntries == 3
MaxPatterns == 2

\* Every entry a source tree may hold.  "sub.d" sorts before "sub/n.md" as a
\* string and after it component by component.
Universe ==
    (<<  <<107, 101, 101, 112, 46, 109, 100>>  >> :> File(<<107>>))        \* keep.md
 @@ (<<  <<115, 107, 105, 112, 46, 116, 120, 116>>  >> :> File(<<115>>))   \* skip.txt
 @@ (<<  <<115, 117, 98>>  >> :> Dir)                                      \* sub/
 @@ (<<  <<115, 117, 98>>, <<110, 46, 109, 100>>  >> :> File(<<110>>))     \* sub/n.md
 @@ (<<  <<115, 117, 98>>, <<112>>  >> :> Fifo)                            \* sub/p (a fifo)
 @@ (<<  <<115, 117, 98, 46, 100>>  >> :> Dir)                             \* sub.d/
 @@ (<<  <<108, 102>>  >> :> Symlink(<<107, 101, 101, 112, 46, 109, 100>>)) \* lf -> keep.md
 @@ (<<  <<108, 100>>  >> :> Symlink(<<115, 117, 98>>))                    \* ld -> sub
 @@ (<<  <<108, 120>>  >> :> Symlink(<<103, 111, 110, 101>>))              \* lx -> gone

\* a tree holds the directory of every entry it holds
ParentClosed(S) == \A p \in S : Len(p) > 1 => Parent(p) \in S

Trees ==
    {[p \in S |-> Universe[p]] :
        S \in {T \in SUBSET DOMAIN Universe :
                  Cardinality(T) <= MaxEntries /\ ParentClosed(T)}}

\* the orders in which a set of paths may be iterated: two opposite ones
ScanForward ==
    << <<  <<115, 117, 98>>, <<112>>  >>,
       <<  <<108, 120>>  >>,
       <<  <<115, 117, 98>>, <<110, 46, 109, 100>>  >>,
       <<  <<107, 101, 101, 112, 46, 109, 100>>  >>,
       <<  <<115, 117, 98, 46, 100>>  >>,
       <<  <<108, 100>>  >>,
       <<  <<115, 117, 98>>  >>,
       <<  <<115, 107, 105, 112, 46, 116, 120, 116>>  >>,
       <<  <<108, 102>>  >> >>

Reverse(seq) == [i \in 1..Len(seq) |-> seq[Len(seq) + 1 - i]]

ScanOrders == {ScanForward, Reverse(ScanForward)}

\* "*.md", "p", "*"
Patterns == {<<42, 46, 109, 100>>, <<112>>, <<42>>}

PatternSeqs == UNION {[1..n -> Patterns] : n \in 0..MaxPatterns}

\* archive_name: None, or a string
NoName == [some |-> FALSE, val |-> <<>>]
Name(s) == [some |-> TRUE, val |-> s]

\* None, "out", "a/b", "a/", "..", ""
ArchiveNames ==
    {NoName, Name(<<111, 117, 116>>), Name(<<97, 47, 98>>), Name(<<97, 47>>),
     Name(<<46, 46>>), Name(<<>>)}

\* "zip", "ZIP", "gztar", "rar"
ArchiveFormats ==
    {<<122, 105, 112>>, <<90, 73, 80>>, <<103, 122, 116, 97, 114>>,
     <<114, 97, 114>>}

\* the final component of the directory D: "proj", "my.project", ".cfg"
DirNames ==
    {<<112, 114, 111, 106>>,
     <<109, 121, 46, 112, 114, 111, 106, 101, 99, 116>>,
     <<46, 99, 102, 103>>}

\* the UTC time of the call
Times ==
    {[Y |-> 2025, M |-> 1, D |-> 1, h |-> 1, m |-> 1, s |-> 1],
     [Y |-> 2026, M |-> 11, D |-> 30, h |-> 23, m |-> 59, s |-> 7]}

\* The places a path argument may name: the directory D (holding the tree),
\* the directory W (empty at first), the regular file F and the missing M.
Places == {"D", "W", "F", "M"}
Dirs == {"D", "W"}
PlaceKind(place) ==
    IF place \in Dirs THEN "dir" ELSE IF place = "F" THEN "file" ELSE "missing"

----------------------------------------------------------------------------
(* utils.utctimestamp                                                      *)

\* n in decimal, zero-padded to width digits
RECURSIVE Digits(_, _)
Digits(n, width) ==
    IF width = 0 THEN <<>> ELSE Append(Digits(n \div 10, width - 1), 48 + (n % 10))

\* strftime("%Y%m%d%H%M%S")
utctimestamp(t) ==
    Digits(t.Y, 4) \o Digits(t.M, 2) \o Digits(t.D, 2)
        \o Digits(t.h, 2) \o Digits(t.m, 2) \o Digits(t.s, 2)

----------------------------------------------------------------------------
(* create_archive: validation and naming                                   *)

\* {fmt for fmt, _ in get_archive_formats()}: "bztar", "gztar", "tar",
\* "xztar", "zip"
supported ==
    {<<98, 122, 116, 97, 114>>, <<103, 122, 116, 97, 114>>, <<116, 97, 114>>,
     <<120, 122, 116, 97, 114>>, <<122, 105, 112>>}

\* the extension make_archive appends for a format: ".zip", ".tar",
\* ".tar.gz", ".tar.bz2", ".tar.xz"
Extension(fmt) ==
    IF fmt = <<122, 105, 112>> THEN <<46, 122, 105, 112>>
    ELSE IF fmt = <<116, 97, 114>> THEN <<46, 116, 97, 114>>
    ELSE IF fmt = <<103, 122, 116, 97, 114>> THEN <<46, 116, 97, 114, 46, 103, 122>>
    ELSE IF fmt = <<98, 122, 116, 97, 114>>
         THEN <<46, 116, 97, 114, 46, 98, 122, 50>>
    ELSE <<46, 116, 97, 114, 46, 120, 122>>

\* the final path component of a directory; W is named "work"
PlaceName(place, dname) == IF place = "D" THEN dname ELSE <<119, 111, 114, 107>>

\* lines 119-121
FormatOk(fmt) == Lower(fmt) \in supported

\* a name test that only refuses a leading separator
NameOkLeadingSep(name) == name = <<>> \/ name[1] # SEP[1]

\* line 129: Path(archive_name).name == archive_name
NameOk(name) == PathName(name) = name

\* lines 114-131: the first check that fails: "dir", "format" or "name";
\* "none" when the arguments are accepted
ValidationError(place, fmt, name) ==
    IF PlaceKind(place) # "dir" THEN "dir"
    ELSE IF ~FormatOk(fmt) THEN "format"
    ELSE IF name.some /\ ~NameOk(name.val) THEN "name"
    ELSE "none"

\* lines 126-131
BaseName(place, dname, name, t) ==
    IF name.some THEN name.val
    ELSE utctimestamp(t) \o <<95>> \o Stem(PlaceName(place, dname))

\* the file make_archive(str(Path(base_name)), archive_format) writes, in the
\* current working directory
ArchiveFile(base, fmt) == PathStr(base) \o Extension(Lower(fmt))

\* the bytes of an archive holding members: one line for each member
RECURSIVE ArchiveBytes(_)
ArchiveBytes(members) ==
    IF members = <<>> THEN <<>>
    ELSE RelStr(members[1]) \o <<10>> \o ArchiveBytes(Tail(members))

\* the temporary directory kept when the with block is left
TearDownLeak(t) == t

\* line 141, leaving the with block: TemporaryDirectory removes the directory
\* and everything under it, however the block is left
TearDown(t) == [exists |-> FALSE, tree |-> EmptyTree]

\* every failure of the command given exit code 1
CliExitCodeAllOne(outcome) == IF outcome = "returned" THEN 0 ELSE 1

\* cli.py lines 80, 84, 93 and 96: the exit code of the command
CliExitCode(outcome) ==
    IF outcome = "rejected" THEN 2 ELSE IF outcome = "returned" THEN 0 ELSE 1

NoTmp == [exists |-> FALSE, tree |-> EmptyTree]
NoPath == [place |-> "none", file |-> <<>>]
NoArchive == [file |-> <<>>, members |-> <<>>, complete |-> FALSE]

----------------------------------------------------------------------------
(* State                                                                   *)

VARIABLES
    \* the arguments and the environment of the call
    directory_path,   \* a place, or "none" (the CLI's omitted argument)
    archive_name,
    patterns,
    archive_format,
    cwd,              \* the current working directory: "D" or "W"
    dname,            \* the final component of D's path
    order,            \* the iteration order of the set `matched`
    now,              \* the UTC time
    viaCli,           \* called through the create-archive command
    \* the file system
    fs,               \* the tree below each directory
    fs0,              \* fs when the call began
    tmp,              \* the Staging Root: [exists, tree]
    tmpCreated,       \* how many temporary directories were created
    \* create_archive
    pc,               \* "cli", "call", "stage", "returned", "raised", "exit"
    directory,        \* the place create_archive is called with
    base_name,
    paths,
    idx,              \* the position of the loop of line 143 in paths
    archive,          \* what make_archive has written
    archive_path,     \* the value returned
    err,              \* the exception raised: "none", "ValueError", "OSError"
    \* the command
    calls,            \* how often the command has called create_archive
    exit_code,        \* -1 while the command runs
    stdout,           \* the archive path the command has printed
    stderr,           \* the error message the command has printed
    \* confirm
    default,          \* the argument: None, or a string
    replies,          \* the lines read from standard input, as typed
    reminders,        \* how often "Please respond with 'yes' or 'no'." was printed
    cpc,              \* "idle", "call", "loop", "returned", "raised"
    cresult,          \* the value returned
    \* delete_local_branches and delete_remote_branch_refs
    pfun,             \* which of the two runs: "local" or "remote"
    ppc,              \* "idle", "call", "loop", "done", "aborted"
    current,          \* the branch checked out; "HEAD" when HEAD is detached
    branches,         \* the local branches of the repository
    remotes,          \* its remote-tracking refs
    branches0,        \* branches when the call began
    remotes0,         \* remotes when the call began
    to_delete,
    pidx,             \* the position of the delete loop in to_delete
    issued,           \* the argument lists of the delete commands run so far
    failures,         \* how many failed deletes were logged
    \* clear_cache
    sroot,            \* the components of root, the resolved directory_path
    stree,            \* the tree below root
    stree0,           \* the tree below root when the call began
    sorder,           \* the order in which scandir lists a directory
    spc,              \* "idle", "call", "dirs", "files", "done", "raised"
    spat,             \* the position of the running loop in its patterns
    squeue,           \* matches of the pattern rglob has yet to yield
    sdeleted          \* the paths logged as deleted

argVars == <<directory_path, archive_name, patterns, archive_format, cwd, dname,
             order, now, viaCli, fs0>>
cliVars == <<calls, exit_code, stdout, stderr>>
vars == <<directory_path, archive_name, patterns, archive_format, cwd, dname,
          order, now, viaCli, fs, fs0, tmp, tmpCreated, pc, directory,
          base_name, paths, idx, archive, archive_path, err, calls, exit_code,
          stdout, stderr, default, replies, reminders, cpc, cresult, pfun, ppc,
          current, branches, remotes, branches0, remotes0, to_delete, pidx,
          issued, failures, sroot, stree, stree0, sorder, spc, spat, squeue,
          sdeleted>>
confirmVars == <<default, replies, reminders, cpc, cresult>>
pruneVars == <<pfun, ppc, current, branches, remotes, branches0, remotes0,
               to_delete, pidx, issued, failures>>

sweepVars == <<sroot, stree, stree0, sorder, spc, spat, squeue, sdeleted>>

\* clear_cache is not running
SweepIdle ==
    /\ sroot = <<>>
    /\ stree = EmptyTree
    /\ stree0 = EmptyTree
    /\ sorder = "asc"
    /\ spc = "idle"
    /\ spat = 1
    /\ squeue = {}
    /\ sdeleted = {}

\* the branch functions are not running
PruneIdle ==
    /\ pfun = "local"
    /\ ppc = "idle"
    /\ current = <<>>
    /\ branches = {}
    /\ remotes = {}
    /\ branches0 = {}
    /\ remotes0 = {}
    /\ to_delete = <<>>
    /\ pidx = 1
    /\ issued = <<>>
    /\ failures = 0
archiveVars == <<directory_path, archive_name, patterns, archive_format, cwd,
                 dname, order, now, viaCli, fs, fs0, tmp, tmpCreated, pc,
                 directory, base_name, paths, idx, archive, archive_path, err,
                 calls, exit_code, stdout, stderr>>

\* the tree of D in the calls that vary the arguments: keep.md, sub/, sub/n.md
SmallTree ==
    [p \in { <<  <<107, 101, 101, 112, 46, 109, 100>>  >>,
             <<  <<115, 117, 98>>  >>,
             <<  <<115, 117, 98>>, <<110, 46, 109, 100>>  >> } |-> Universe[p]]

InitRest ==
    /\ fs0 = fs
    /\ tmp = NoTmp
    /\ tmpCreated = 0
    /\ pc = IF viaCli THEN "cli" ELSE "call"
    /\ directory = directory_path
    /\ base_name = <<>>
    /\ paths = <<>>
    /\ idx = 1
    /\ archive = NoArchive
    /\ archive_path = NoPath
    /\ err = "none"
    /\ calls = 0
    /\ exit_code = -1
    /\ stdout = NoPath
    /\ stderr = "none"

\* calls that vary the source tree, the patterns and the iteration order
InitTrees ==
    /\ directory_path = "D"
    /\ archive_name = Name(<<111, 117, 116>>)
    /\ patterns \in PatternSeqs
    /\ archive_format = <<122, 105, 112>>
    /\ cwd = "W"
    /\ dname = <<112, 114, 111, 106>>
    /\ order \in ScanOrders
    /\ now \in {t \in Times : t.Y = 2025}
    /\ viaCli = FALSE
    /\ fs \in {[d \in Dirs |-> IF d = "D" THEN t ELSE EmptyTree] : t \in Trees}
    /\ InitRest

\* calls that vary the arguments, the working directory and the caller
InitArgs ==
    /\ viaCli \in BOOLEAN
    /\ directory_path \in Places \cup (IF viaCli THEN {"none"} ELSE {})
    /\ archive_name \in ArchiveNames
    /\ patterns = <<>>
    /\ archive_format \in ArchiveFormats
    /\ cwd \in Dirs
    /\ dname \in DirNames
    /\ order = ScanForward
    /\ now \in Times
    /\ fs = [d \in Dirs |-> IF d = "D" THEN SmallTree ELSE EmptyTree]
    /\ InitRest

\* confirm is not running
ConfirmIdle ==
    /\ default = NoName
    /\ replies = <<>>
    /\ reminders = 0
    /\ cpc = "idle"
    /\ cresult = FALSE

Init == (InitTrees \/ InitArgs) /\ ConfirmIdle /\ PruneIdle /\ SweepIdle

----------------------------------------------------------------------------
(* Actions                                                                 *)

\* cli.py lines 76-84: the directory is missing or no directory; exit code 2
CliReject ==
    /\ pc = "cli"
    /\ LET d == IF directory_path = "none" THEN cwd ELSE directory_path
       IN /\ PlaceKind(d) # "dir"
          /\ directory' = d
          /\ stderr' = IF PlaceKind(d) = "missing" THEN "Directory not found"
                       ELSE "Not a directory"
    /\ exit_code' = CliExitCode("rejected")
    /\ pc' = "exit"
    /\ UNCHANGED <<sweepVars, pruneVars, confirmVars, argVars, fs, tmp, tmpCreated, base_name, paths, idx, archive,
                   archive_path, err, calls, stdout>>

\* cli.py lines 76-92: the directory is accepted and create_archive is called
CliInvoke ==
    /\ pc = "cli"
    /\ LET d == IF directory_path = "none" THEN cwd ELSE directory_path
       IN /\ PlaceKind(d) = "dir"
          /\ directory' = d
    /\ calls' = calls + 1
    /\ pc' = "call"
    /\ UNCHANGED <<sweepVars, pruneVars, confirmVars, argVars, fs, tmp, tmpCreated, base_name, paths, idx, archive,
                   archive_path, err, exit_code, stdout, stderr>>

\* core.py lines 114-131: a validation fails and ValueError is raised
ValidateFail ==
    /\ pc = "call"
    /\ ValidationError(directory, archive_format, archive_name) # "none"
    /\ err' = "ValueError"
    /\ pc' = "raised"
    /\ UNCHANGED <<sweepVars, pruneVars, confirmVars, argVars, cliVars, fs, tmp, tmpCreated, directory, base_name,
                   paths, idx, archive, archive_path>>

\* core.py lines 114-142: the arguments are accepted, the matches collected and
\* sorted, and the temporary directory created
EnterStaging ==
    /\ pc = "call"
    /\ ValidationError(directory, archive_format, archive_name) = "none"
    /\ base_name' = BaseName(directory, dname, archive_name, now)
    /\ paths' = OrderedMatchList(fs[directory], patterns, order)
    /\ idx' = 1
    /\ tmp' = [exists |-> TRUE, tree |-> EmptyTree]
    /\ tmpCreated' = tmpCreated + 1
    /\ pc' = "stage"
    /\ UNCHANGED <<sweepVars, pruneVars, confirmVars, argVars, cliVars, fs, directory, archive, archive_path, err>>

\* core.py lines 143-168: one iteration of the staging loop
StageStep ==
    /\ pc = "stage"
    /\ idx <= Len(paths)
    /\ StageOk(fs[directory], tmp.tree, paths[idx])
    /\ tmp' = [tmp EXCEPT !.tree = StageOne(fs[directory], @, paths[idx])]
    /\ fs' = [fs EXCEPT ![directory] = SourceAfterStage(@, paths[idx])]
    /\ idx' = idx + 1
    /\ UNCHANGED <<sweepVars, pruneVars, confirmVars, argVars, cliVars, tmpCreated, pc, directory, base_name,
                   paths, archive, archive_path, err>>

\* core.py lines 143-168: mkdir, unlink, symlink or copy2 fails in an
\* iteration; the with block is left by the exception
StageFail ==
    /\ pc = "stage"
    /\ idx <= Len(paths)
    /\ tmp' = TearDown(tmp)
    /\ err' = "OSError"
    /\ pc' = "raised"
    /\ UNCHANGED <<sweepVars, pruneVars, confirmVars, argVars, cliVars, fs, tmpCreated, directory, base_name,
                   paths, idx, archive, archive_path>>

\* the members make_archive writes: every entry under root_dir
Members(st) == SortedPaths(IterateSet(DOMAIN st, order))

\* core.py lines 170-176: make_archive writes the archive into the current
\* working directory; the with block is left and the path returned
Pack ==
    /\ pc = "stage"
    /\ idx > Len(paths)
    /\ LET file == ArchiveFile(base_name, archive_format)
           members == Members(tmp.tree)
       IN /\ archive' = [file |-> file, members |-> members, complete |-> TRUE]
          /\ fs' = [fs EXCEPT ![cwd] = Put(@, <<file>>, File(ArchiveBytes(members)))]
          /\ archive_path' = [place |-> cwd, file |-> file]
    /\ tmp' = TearDown(tmp)
    /\ pc' = "returned"
    /\ UNCHANGED <<sweepVars, pruneVars, confirmVars, argVars, cliVars, tmpCreated, directory, base_name, paths,
                   idx, err>>

\* core.py lines 170-174: make_archive fails before it has opened the archive
\* file; the with block is left by the exception
PackFailEarly ==
    /\ pc = "stage"
    /\ idx > Len(paths)
    /\ tmp' = TearDown(tmp)
    /\ err' = "OSError"
    /\ pc' = "raised"
    /\ UNCHANGED <<sweepVars, pruneVars, confirmVars, argVars, cliVars, fs, tmpCreated, directory, base_name,
                   paths, idx, archive, archive_path>>

\* core.py lines 170-174: make_archive fails after it has opened the archive
\* file and written k members; the file stays as it is, create_archive has no
\* handler that removes it
PackFailLate ==
    /\ pc = "stage"
    /\ idx > Len(paths)
    /\ \E k \in 0..Len(Members(tmp.tree)) :
          LET file == ArchiveFile(base_name, archive_format)
              members == SubSeq(Members(tmp.tree), 1, k)
          IN /\ archive' = [file |-> file, members |-> members,
                            complete |-> FALSE]
             /\ fs' = [fs EXCEPT
                          ![cwd] = Put(@, <<file>>, File(ArchiveBytes(members)))]
    /\ tmp' = TearDown(tmp)
    /\ err' = "OSError"
    /\ pc' = "raised"
    /\ UNCHANGED <<sweepVars, pruneVars, confirmVars, argVars, cliVars, tmpCreated, directory, base_name, paths,
                   idx, archive_path>>

\* cli.py line 93: create_archive returned; the path is printed, exit code 0
CliSuccess ==
    /\ viaCli
    /\ pc = "returned"
    /\ stdout' = archive_path
    /\ exit_code' = CliExitCode("returned")
    /\ pc' = "exit"
    /\ UNCHANGED <<sweepVars, pruneVars, confirmVars, argVars, fs, tmp, tmpCreated, directory, base_name, paths,
                   idx, archive, archive_path, err, calls, stderr>>

\* cli.py lines 94-96: create_archive raised; exit code 1
CliFailure ==
    /\ viaCli
    /\ pc = "raised"
    /\ stderr' = "Failed to create archive."
    /\ exit_code' = CliExitCode("raised")
    /\ pc' = "exit"
    /\ UNCHANGED <<sweepVars, pruneVars, confirmVars, argVars, fs, tmp, tmpCreated, directory, base_name, paths,
                   idx, archive, archive_path, err, calls, stdout>>

Next ==
    \/ CliReject
    \/ CliInvoke
    \/ ValidateFail
    \/ EnterStaging
    \/ StageStep
    \/ StageFail
    \/ Pack
    \/ PackFailEarly
    \/ PackFailLate
    \/ CliSuccess
    \/ CliFailure

Spec == Init /\ [][Next]_vars

----------------------------------------------------------------------------
(* confirm                                                                 *)

\* the most replies a run of confirm reads
MaxReplies == 3

\* lines 85-86: "y", "yes", "t", "true", "on", "1" and "n", "no", "f",
\* "false", "off", "0"
true_tokens ==
    {<<121>>, <<121, 101, 115>>, <<116>>, <<116, 114, 117, 101>>, <<111, 110>>,
     <<49>>}
false_tokens ==
    {<<110>>, <<110, 111>>, <<102>>, <<102, 97, 108, 115, 101>>,
     <<111, 102, 102>>, <<48>>}

YES == Name(<<121, 101, 115>>)
NO == Name(<<110, 111>>)

\* the defaults a caller may give: None, "yes", "no", "maybe", "YES"
Defaults == {NoName, YES, NO, Name(<<109, 97, 121, 98, 101>>), Name(<<89, 69, 83>>)}

\* the lines a user may type: the twelve tokens, "", "   ", "maybe", " Y ",
\* "YES", "No", " no"
Replies ==
    true_tokens \cup false_tokens \cup
    {<<>>, <<32, 32, 32>>, <<109, 97, 121, 98, 101>>, <<32, 89, 32>>,
     <<89, 69, 83>>, <<78, 111>>, <<32, 110, 111>>}

\* line 82
DefaultOk(d) == d \in {NoName, YES, NO}

\* the reply compared as typed, without strip() and lower()
AnswerAsTyped(d, raw) ==
    IF raw = <<>> THEN (IF d.some THEN (IF d = YES THEN "true" ELSE "false")
                        ELSE "again")
    ELSE IF raw \in true_tokens THEN "true"
    ELSE IF raw \in false_tokens THEN "false"
    ELSE "again"

\* lines 91-104, one pass of the loop on the line raw: "true" or "false" when
\* confirm returns that value, "again" when it prints the reminder
Answer(d, raw) ==
    LET reply == Lower(Strip(raw))
    IN IF reply = <<>>
       THEN (IF d.some THEN (IF d = YES THEN "true" ELSE "false") ELSE "again")
       ELSE IF reply \in true_tokens THEN "true"
       ELSE IF reply \in false_tokens THEN "false"
       ELSE "again"

\* create_archive and the command are not running
ArchiveIdle ==
    /\ directory_path = "D"
    /\ archive_name = NoName
    /\ patterns = <<>>
    /\ archive_format = <<122, 105, 112>>
    /\ cwd = "W"
    /\ dname = <<112, 114, 111, 106>>
    /\ order = ScanForward
    /\ now \in {t \in Times : t.Y = 2025}
    /\ viaCli = FALSE
    /\ fs = [d \in Dirs |-> EmptyTree]
    /\ fs0 = fs
    /\ tmp = NoTmp
    /\ tmpCreated = 0
    /\ pc = "idle"
    /\ directory = directory_path
    /\ base_name = <<>>
    /\ paths = <<>>
    /\ idx = 1
    /\ archive = NoArchive
    /\ archive_path = NoPath
    /\ err = "none"
    /\ calls = 0
    /\ exit_code = -1
    /\ stdout = NoPath
    /\ stderr = "none"

InitConfirm ==
    /\ default \in Defaults
    /\ replies = <<>>
    /\ reminders = 0
    /\ cpc = "call"
    /\ cresult = FALSE
    /\ ArchiveIdle
    /\ PruneIdle
    /\ SweepIdle

\* lines 82-83: the default is none of None, "yes", "no"
ConfirmRaise ==
    /\ cpc = "call"
    /\ ~DefaultOk(default)
    /\ cpc' = "raised"
    /\ UNCHANGED <<sweepVars, pruneVars, archiveVars, default, replies, reminders, cresult>>

\* lines 90-102: a line is read and confirm returns
ConfirmReturn ==
    /\ cpc \in {"call", "loop"}
    /\ DefaultOk(default)
    /\ Len(replies) < MaxReplies
    /\ \E raw \in Replies :
          /\ Answer(default, raw) # "again"
          /\ replies' = Append(replies, raw)
          /\ cresult' = (Answer(default, raw) = "true")
    /\ cpc' = "returned"
    /\ UNCHANGED <<sweepVars, pruneVars, archiveVars, default, reminders>>

\* lines 90-104: a line is read, the reminder is printed and the loop goes on
ConfirmReprompt ==
    /\ cpc \in {"call", "loop"}
    /\ DefaultOk(default)
    /\ Len(replies) < MaxReplies
    /\ \E raw \in Replies :
          /\ Answer(default, raw) = "again"
          /\ replies' = Append(replies, raw)
    /\ reminders' = reminders + 1
    /\ cpc' = "loop"
    /\ UNCHANGED <<sweepVars, pruneVars, archiveVars, default, cresult>>

NextConfirm ==
    \/ ConfirmRaise
    \/ ConfirmReturn
    \/ ConfirmReprompt

SpecConfirm == InitConfirm /\ [][NextConfirm]_vars

----------------------------------------------------------------------------
(* delete_local_branches and delete_remote_branch_refs                     *)

\* the most local branches, or remote-tracking refs, a repository has
MaxBranches == 3

\* sub in s, for strings
HasSub(s, sub) ==
    \E i \in 1..(Len(s) - Len(sub) + 1) : Slice(s, i, i + Len(sub) - 1) = sub

\* s.lstrip(chars) for one character: every leading c is removed
RECURSIVE LStripChar(_, _)
LStripChar(s, c) == IF s # <<>> /\ s[1] = c THEN LStripChar(Tail(s), c) ELSE s

\* s.split("/", 1)[-1]: what follows the first "/", all of s when there is none
RECURSIVE AfterFirstSep(_, _)
AfterFirstSep(s, whole) ==
    IF s = <<>> THEN whole
    ELSE IF s[1] = SEP[1] THEN Tail(s)
    ELSE AfterFirstSep(Tail(s), whole)

\* "\n".join(lines)
RECURSIVE JoinLines(_)
JoinLines(lines) ==
    IF lines = <<>> THEN <<>>
    ELSE IF Len(lines) = 1 THEN lines[1]
    ELSE lines[1] \o <<10>> \o JoinLines(Tail(lines))

\* str.splitlines() on text whose only line break is "\n"
RECURSIVE SplitLines(_, _)
SplitLines(s, acc) ==
    IF s = <<>> THEN (IF acc = <<>> THEN <<>> ELSE <<acc>>)
    ELSE IF s[1] = 10 THEN <<acc>> \o SplitLines(Tail(s), <<>>)
    ELSE SplitLines(Tail(s), Append(acc, s[1]))

\* shlex.split(s) on text without backslashes and comment characters: words
\* are separated by whitespace, a quote character opens a quoted part that
\* runs to the next same quote character and both quotes are dropped; text
\* that ends inside a quoted part is a ValueError (ok = FALSE)
RECURSIVE Shlex(_, _, _, _, _)
Shlex(s, tok, intok, quote, acc) ==
    IF s = <<>> THEN
        IF quote # 0 THEN [ok |-> FALSE, tokens |-> <<>>]
        ELSE [ok |-> TRUE, tokens |-> IF intok THEN Append(acc, tok) ELSE acc]
    ELSE IF quote # 0 THEN
        IF s[1] = quote THEN Shlex(Tail(s), tok, TRUE, 0, acc)
        ELSE Shlex(Tail(s), Append(tok, s[1]), TRUE, quote, acc)
    ELSE IF IsSpace(s[1]) THEN
        IF intok THEN Shlex(Tail(s), <<>>, FALSE, 0, Append(acc, tok))
        ELSE Shlex(Tail(s), <<>>, FALSE, 0, acc)
    ELSE IF s[1] \in {34, 39} THEN Shlex(Tail(s), tok, TRUE, s[1], acc)
    ELSE Shlex(Tail(s), Append(tok, s[1]), TRUE, 0, acc)

ShlexSplit(s) == Shlex(s, <<>>, FALSE, 0, <<>>)

\* the strings of a set in ascending order, as git lists refs
RECURSIVE SortStrings(_)
SortStrings(S) ==
    IF S = {} THEN <<>>
    ELSE LET least == CHOOSE a \in S : \A b \in S \ {a} : StrLess(a, b)
         IN  <<least>> \o SortStrings(S \ {least})

main == <<109, 97, 105, 110>>
master == <<109, 97, 115, 116, 101, 114>>
develop == <<100, 101, 118, 101, 108, 111, 112>>
PROTECTED_BRANCHES == {main, master, develop}

\* what git prints for HEAD when no branch is checked out
HEAD == <<72, 69, 65, 68>>
DetachedLine == <<40, 72, 69, 65, 68, 32, 100, 101, 116, 97, 99, 104, 101,
                  100, 32, 97, 116, 32, 49, 97, 50, 98, 51, 99, 41>>

\* branch names git accepts: feat, fix/a, "main" (with the quote characters)
\* and it's
feat == <<102, 101, 97, 116>>
fix_a == <<102, 105, 120, 47, 97>>
quoted_main == <<34>> \o main \o <<34>>
its == <<105, 116, 39, 115>>
LocalNames == PROTECTED_BRANCHES \cup {feat, fix_a, quoted_main, its}

\* the remote-tracking ref of a branch of the remote origin
Origin(b) == <<111, 114, 105, 103, 105, 110>> \o SEP \o b
RemoteNames == {Origin(b) : b \in {main, feat, fix_a, quoted_main, its}}

\* the output of "git branch": one line per branch in ref order, the checked
\* out one marked "* ", the others indented; a detached HEAD has a line of
\* its own, first
GitBranch(local, cur) ==
    LET names == SortStrings(local)
        lines == [i \in 1..Len(names) |->
                     (IF names[i] = cur THEN <<42, 32>> ELSE <<32, 32>>)
                     \o names[i]]
    IN  JoinLines(IF cur = HEAD THEN <<(<<42, 32>> \o DetachedLine)>> \o lines
                  ELSE lines)

\* the output of "git branch --remotes": one indented line per ref, and the
\* line of origin/HEAD, which points at origin/main
GitBranchRemotes(refs) ==
    LET names == SortStrings(refs)
        lines == [i \in 1..Len(names) |-> <<32, 32>> \o names[i]]
        head == <<32, 32>> \o Origin(HEAD) \o <<32, 45, 62, 32>> \o Origin(main)
    IN  JoinLines(IF Origin(main) \in refs THEN <<head>> \o lines ELSE lines)

\* run_command returns the command's output, stripped
get_current_branch_name(cur) == Strip(cur \o <<10>>)

get_local_branch_names(local, cur) ==
    LET lines == SplitLines(Strip(GitBranch(local, cur) \o <<10>>), <<>>)
    IN  [i \in 1..Len(lines) |-> Strip(LStripChar(lines[i], 42))]

RECURSIVE DropArrows(_)
DropArrows(lines) ==
    IF lines = <<>> THEN <<>>
    ELSE IF HasSub(Strip(lines[1]), <<45, 62>>) THEN DropArrows(Tail(lines))
    ELSE <<Strip(lines[1])>> \o DropArrows(Tail(lines))

get_remote_branch_names(refs) ==
    DropArrows(SplitLines(Strip(GitBranchRemotes(refs) \o <<10>>), <<>>))

\* the list comprehension of lines 206 and 233
RECURSIVE Keep(_, _, _)
Keep(names, exclude, fun) ==
    IF names = <<>> THEN <<>>
    ELSE LET key == IF fun = "remote" THEN AfterFirstSep(names[1], names[1])
                    ELSE names[1]
         IN  (IF key \in exclude THEN <<>> ELSE <<names[1]>>)
             \o Keep(Tail(names), exclude, fun)

\* the command line of a delete
DeleteCommand(fun, name) ==
    (IF fun = "remote"
     THEN <<103, 105, 116, 32, 98, 114, 97, 110, 99, 104, 32, 45, 114, 32,
            45, 100, 32>>
     ELSE <<103, 105, 116, 32, 98, 114, 97, 110, 99, 104, 32, 45, 68, 32>>)
    \o name

\* the branch arguments of a split delete command: what follows the options
DeleteArgs(fun, tokens) ==
    LET first == IF fun = "remote" THEN 5 ELSE 4
    IN  Slice(tokens, first, Len(tokens))

\* git branch -D / -r -d: every argument that names an existing ref other than
\* the checked-out branch is deleted; the exit status is nonzero when an
\* argument could not be deleted
GitDelete(refs, cur, args) ==
    LET gone == {args[i] : i \in 1..Len(args)} \cap (refs \ {cur})
    IN  [refs |-> refs \ gone,
         ok |-> \A i \in 1..Len(args) : args[i] \in refs \ {cur}]

\* a repository with some local branches; delete_local_branches is called
InitLocal ==
    /\ pfun = "local"
    /\ branches \in {S \in SUBSET LocalNames : Cardinality(S) \in 1..MaxBranches}
    /\ remotes = {}
    /\ current \in branches \cup {HEAD}

\* a repository with remote-tracking refs; delete_remote_branch_refs is called
InitRemote ==
    /\ pfun = "remote"
    /\ branches = {main, feat, fix_a}
    /\ remotes \in {S \in SUBSET RemoteNames : Cardinality(S) <= MaxBranches}
    /\ current \in branches \cup {HEAD}

InitPrune ==
    /\ InitLocal \/ InitRemote
    /\ ppc = "call"
    /\ branches0 = branches
    /\ remotes0 = remotes
    /\ to_delete = <<>>
    /\ pidx = 1
    /\ issued = <<>>
    /\ failures = 0
    /\ ArchiveIdle
    /\ ConfirmIdle
    /\ SweepIdle

\* lines 202-210 and 229-237: the current branch, the listing, the filter
PruneStart ==
    /\ ppc = "call"
    /\ LET exclude == PROTECTED_BRANCHES \cup {get_current_branch_name(current)}
           listed == IF pfun = "remote" THEN get_remote_branch_names(remotes)
                     ELSE get_local_branch_names(branches, current)
           kept == Keep(listed, exclude, pfun)
       IN  /\ to_delete' = kept
           /\ ppc' = IF kept = <<>> THEN "done" ELSE "loop"
    /\ UNCHANGED <<sweepVars, archiveVars, confirmVars, pfun, current, branches, remotes,
                   branches0, remotes0, pidx, issued, failures>>

\* the refs the running function deletes from
Refs == IF pfun = "remote" THEN remotes ELSE branches

\* the delete command of the loop's position, split by run_command
Command == ShlexSplit(DeleteCommand(pfun, to_delete[pidx]))

\* lines 213-216 and 240-243: the command exits zero
PruneDelete ==
    /\ ppc = "loop"
    /\ pidx <= Len(to_delete)
    /\ Command.ok
    /\ LET args == DeleteArgs(pfun, Command.tokens)
           r == GitDelete(Refs, current, args)
       IN  /\ r.ok
           /\ branches' = IF pfun = "remote" THEN branches ELSE r.refs
           /\ remotes' = IF pfun = "remote" THEN r.refs ELSE remotes
           /\ issued' = Append(issued, args)
    /\ pidx' = pidx + 1
    /\ UNCHANGED <<sweepVars, archiveVars, confirmVars, pfun, ppc, current, branches0,
                   remotes0, to_delete, failures>>

\* lines 217-223 and 244-250: the command exits nonzero, because git could not
\* delete an argument or could not run at all; the error is logged and the
\* loop goes on
PruneDeleteFails ==
    /\ ppc = "loop"
    /\ pidx <= Len(to_delete)
    /\ Command.ok
    /\ \E broken \in BOOLEAN :
        LET args == DeleteArgs(pfun, Command.tokens)
            r == IF broken THEN [refs |-> Refs, ok |-> FALSE]
                 ELSE GitDelete(Refs, current, args)
        IN  /\ ~r.ok
            /\ branches' = IF pfun = "remote" THEN branches ELSE r.refs
            /\ remotes' = IF pfun = "remote" THEN r.refs ELSE remotes
            /\ issued' = Append(issued, args)
    /\ failures' = failures + 1
    /\ pidx' = pidx + 1
    /\ UNCHANGED <<sweepVars, archiveVars, confirmVars, pfun, ppc, current, branches0,
                   remotes0, to_delete>>

\* line 281: shlex.split raises ValueError, which no handler of the loop
\* catches; the function ends there
PruneAbort ==
    /\ ppc = "loop"
    /\ pidx <= Len(to_delete)
    /\ ~Command.ok
    /\ ppc' = "aborted"
    /\ UNCHANGED <<sweepVars, archiveVars, confirmVars, pfun, current, branches, remotes,
                   branches0, remotes0, to_delete, pidx, issued, failures>>

\* the loop has run through to_delete
PruneReturn ==
    /\ ppc = "loop"
    /\ pidx > Len(to_delete)
    /\ ppc' = "done"
    /\ UNCHANGED <<sweepVars, archiveVars, confirmVars, pfun, current, branches, remotes,
                   branches0, remotes0, to_delete, pidx, issued, failures>>

NextPrune ==
    \/ PruneStart
    \/ PruneDelete
    \/ PruneDeleteFails
    \/ PruneAbort
    \/ PruneReturn

SpecPrune == InitPrune /\ [][NextPrune]_vars

----------------------------------------------------------------------------
(* clear_cache                                                             *)

\* the most entries the tree below root has
MaxCacheEntries == 4

pycache == <<95, 95, 112, 121, 99, 97, 99, 104, 101, 95, 95>>
ruff_cache == <<46, 114, 117, 102, 102, 95, 99, 97, 99, 104, 101>>

\* "__pycache__", ".pytest_cache", ".ipynb_checkpoints", ".ruff_cache",
\* "spark-warehouse"
CACHE_DIRECTORIES ==
    << pycache,
       <<46, 112, 121, 116, 101, 115, 116, 95, 99, 97, 99, 104, 101>>,
       <<46, 105, 112, 121, 110, 98, 95, 99, 104, 101, 99, 107, 112, 111,
         105, 110, 116, 115>>,
       ruff_cache,
       <<115, 112, 97, 114, 107, 45, 119, 97, 114, 101, 104, 111, 117, 115,
         101>> >>

\* "*.py[co]", ".coverage", ".coverage.*"
CACHE_FILE_EXTENSIONS ==
    << <<42, 46, 112, 121, 91, 99, 111, 93>>,
       <<46, 99, 111, 118, 101, 114, 97, 103, 101>>,
       <<46, 99, 111, 118, 101, 114, 97, 103, 101, 46, 42>> >>

venv == <<118, 101, 110, 118>>

\* the entries a tree below root is drawn from
CacheUniverse ==
    (<<  <<97, 46, 112, 121, 99>>  >> :> File(<<97>>))                \* a.pyc
 @@ (<<  pycache  >> :> Dir)                                 \* __pycache__/
 @@ (<<  pycache, <<109, 46, 112, 121, 99>>  >> :> File(<<109>>))
                                                        \* __pycache__/m.pyc
 @@ (<<  venv  >> :> Dir)                                           \* venv/
 @@ (<<  venv, pycache  >> :> Dir)                      \* venv/__pycache__/
 @@ (<<  venv, <<98, 46, 112, 121, 111>>  >> :> File(<<98>>)) \* venv/b.pyo
 @@ (<<  <<116, 101, 115, 116, 95, 118, 101, 110, 118, 46, 112, 121, 99>>  >>
        :> File(<<116>>))                                  \* test_venv.pyc
 @@ (<<  <<107, 101, 101, 112, 46, 112, 121>>  >> :> File(<<107>>)) \* keep.py
 @@ (<<  <<46, 99, 111, 118, 101, 114, 97, 103, 101, 46, 120>>  >>
        :> File(<<120>>))                                    \* .coverage.x
 @@ (<<  ruff_cache  >> :> File(<<114>>))            \* .ruff_cache, a file
 @@ (<<  <<100, 46, 112, 121, 99>>  >> :> Dir)       \* d.pyc/, a directory

CacheTrees ==
    {[p \in S |-> CacheUniverse[p]] :
        S \in {T \in SUBSET DOMAIN CacheUniverse :
                  Cardinality(T) <= MaxCacheEntries /\ ParentClosed(T)}}

\* where root lies: /p, /myvenv/p, /venv/p
Roots ==
    { <<  <<112>>  >>,
      <<  <<109, 121, 118, 101, 110, 118>>, <<112>>  >>,
      <<  venv, <<112>>  >> }

\* str(path) of the path rglob yields for the entry p below root
AbsStr(root, p) == SEP \o JoinSep(root \o p)

\* whether rglob visits the directory a before the directory b: a directory
\* comes before what is below it, siblings in the order scandir lists them
RECURSIVE VisitedBefore(_, _, _)
VisitedBefore(a, b, ord) ==
    IF a = <<>> THEN b # <<>>
    ELSE IF b = <<>> THEN FALSE
    ELSE IF a[1] = b[1] THEN VisitedBefore(Tail(a), Tail(b), ord)
    ELSE IF ord = "asc" THEN StrLess(a[1], b[1])
    ELSE StrLess(b[1], a[1])

\* whether rglob yields the match p before the match q: the matches in a
\* directory are yielded when the directory is visited
YieldedBefore(p, q, ord) ==
    IF Parent(p) = Parent(q) THEN VisitedBefore(p, q, ord)
    ELSE VisitedBefore(Parent(p), Parent(q), ord)

\* shutil.rmtree(path, ignore_errors=False) raises on a symbolic link and on
\* what is no directory; else the directory goes with everything below it
RmtreeOk(tree, p) == Kind(tree, p) = "dir"
Rmtree(tree, p) ==
    [q \in {x \in DOMAIN tree : Len(x) < Len(p) \/ SubSeq(x, 1, Len(p)) # p}
        |-> tree[q]]

\* Path.unlink() raises on a directory
UnlinkOk(tree, p) == Kind(tree, p) \notin {"dir", "none"}

\* line 67 and 74: "venv" in str(path)
SkipsVenv(root, p) == HasSub(AbsStr(root, p), venv)

\* clear_cache(root) is called with the default names and globs
InitSweep ==
    /\ sroot \in Roots
    /\ stree \in CacheTrees
    /\ stree0 = stree
    /\ sorder \in {"asc", "desc"}
    /\ spc = "call"
    /\ spat = 1
    /\ squeue = {}
    /\ sdeleted = {}
    /\ ArchiveIdle
    /\ ConfirmIdle
    /\ PruneIdle

\* the names or globs of the running loop, and the one it is at
SweepPatterns == IF spc = "dirs" THEN CACHE_DIRECTORIES ELSE CACHE_FILE_EXTENSIONS
SweepPattern == SweepPatterns[spat]

\* the matches root.rglob has yet to yield: what was deleted meanwhile is
\* not yielded
Pending == squeue \cap rglob(stree, SweepPattern)

\* the match it yields next
NextYield ==
    CHOOSE p \in Pending : \A q \in Pending \ {p} : YieldedBefore(p, q, sorder)

\* lines 57-66: the first rglob begins
SweepStart ==
    /\ spc = "call"
    /\ spc' = "dirs"
    /\ spat' = 1
    /\ squeue' = rglob(stree, CACHE_DIRECTORIES[1])
    /\ UNCHANGED <<archiveVars, confirmVars, pruneVars, sroot, stree, stree0,
                   sorder, sdeleted>>

\* lines 67-68 and 74-75: the path is passed over
SweepSkip ==
    /\ spc \in {"dirs", "files"}
    /\ Pending # {}
    /\ SkipsVenv(sroot, NextYield)
    /\ squeue' = squeue \ {NextYield}
    /\ UNCHANGED <<archiveVars, confirmVars, pruneVars, sroot, stree, stree0,
                   sorder, spc, spat, sdeleted>>

\* lines 69-70
SweepRmtree ==
    /\ spc = "dirs"
    /\ Pending # {}
    /\ ~SkipsVenv(sroot, NextYield)
    /\ RmtreeOk(stree, NextYield)
    /\ stree' = Rmtree(stree, NextYield)
    /\ sdeleted' = sdeleted \cup {NextYield}
    /\ squeue' = squeue \ {NextYield}
    /\ UNCHANGED <<archiveVars, confirmVars, pruneVars, sroot, stree0, sorder,
                   spc, spat>>

\* line 69: rmtree raises, clear_cache ends with the exception
SweepRmtreeRaises ==
    /\ spc = "dirs"
    /\ Pending # {}
    /\ ~SkipsVenv(sroot, NextYield)
    /\ ~RmtreeOk(stree, NextYield)
    /\ spc' = "raised"
    /\ UNCHANGED <<archiveVars, confirmVars, pruneVars, sroot, stree, stree0,
                   sorder, spat, squeue, sdeleted>>

\* lines 76-77
SweepUnlink ==
    /\ spc = "files"
    /\ Pending # {}
    /\ ~SkipsVenv(sroot, NextYield)
    /\ UnlinkOk(stree, NextYield)
    /\ stree' = Remove(stree, NextYield)
    /\ sdeleted' = sdeleted \cup {NextYield}
    /\ squeue' = squeue \ {NextYield}
    /\ UNCHANGED <<archiveVars, confirmVars, pruneVars, sroot, stree0, sorder,
                   spc, spat>>

\* line 76: unlink raises, clear_cache ends with the exception
SweepUnlinkRaises ==
    /\ spc = "files"
    /\ Pending # {}
    /\ ~SkipsVenv(sroot, NextYield)
    /\ ~UnlinkOk(stree, NextYield)
    /\ spc' = "raised"
    /\ UNCHANGED <<archiveVars, confirmVars, pruneVars, sroot, stree, stree0,
                   sorder, spat, squeue, sdeleted>>

\* lines 65 and 72: rglob is exhausted; the loop takes its next name or glob,
\* the first loop hands over to the second, the second returns
SweepNextPattern ==
    /\ spc \in {"dirs", "files"}
    /\ Pending = {}
    /\ IF spat < Len(SweepPatterns)
       THEN /\ spat' = spat + 1
            /\ squeue' = rglob(stree, SweepPatterns[spat + 1])
            /\ spc' = spc
       ELSE IF spc = "dirs"
       THEN /\ spat' = 1
            /\ squeue' = rglob(stree, CACHE_FILE_EXTENSIONS[1])
            /\ spc' = "files"
       ELSE /\ spat' = spat
            /\ squeue' = {}
            /\ spc' = "done"
    /\ UNCHANGED <<archiveVars, confirmVars, pruneVars, sroot, stree, stree0,
                   sorder, sdeleted>>

NextSweep ==
    \/ SweepStart
    \/ SweepSkip
    \/ SweepRmtree
    \/ SweepRmtreeRaises
    \/ SweepUnlink
    \/ SweepUnlinkRaises
    \/ SweepNextPattern

SpecSweep == InitSweep /\ [][NextSweep]_vars

----------------------------------------------------------------------------
(* Properties of create_archive                                            *)

\* the source tree as it was when the call began
Source0 == fs0[directory]

\* the arguments pass the three checks of lines 114-131
PastValidation ==
    /\ PlaceKind(directory) = "dir"
    /\ Lower(archive_format) \in supported
    /\ archive_name.some => PathName(archive_name.val) = archive_name.val

\* create_archive has been entered and has not left the loop and the packer
Staging == pc = "stage"

\* every matched path has been processed: the packer is invoked next
AtPack == pc = "stage" /\ idx > Len(paths)

\* create_archive has returned or raised
Terminated == pc \in {"returned", "raised"} \/ (pc = "exit" /\ calls = 1)

\* whether the string s holds the character of the string c
Contains(s, c) == \E i \in 1..Len(s) : s[i] = c[1]

\* the entries of Source0 that some pattern matches
MatchSet ==
    {p \in DOMAIN Source0 :
        \E i \in 1..Len(EffectivePatterns(patterns)) :
            p \in rglob(Source0, EffectivePatterns(patterns)[i])}

\* the matched entries that are a regular file, a directory or a symbolic link
MatchedStageable ==
    {p \in MatchSet : Source0[p].kind \in {"file", "dir", "symlink"}}

\* the directories above the matched entries, below the source directory
MatchedAncestors == UNION {Prefixes(Parent(p)) : p \in MatchSet}

\* C1: in every execution that gets past validation exactly one Staging Root
\* is created, it exists while the entries are staged, and when the call has
\* returned or raised neither it nor anything under it exists any more,
\* whether staging and packing succeeded or a step of either failed.
C1_StagingRootTornDown ==
    /\ pc \in {"cli", "call"} => tmpCreated = 0 /\ ~tmp.exists
    /\ Staging => tmpCreated = 1 /\ tmp.exists
    /\ Terminated /\ PastValidation =>
          tmpCreated = 1 /\ ~tmp.exists /\ DOMAIN tmp.tree = {}

\* a copy or a link creation failed after an entry had been staged
C1_Witness ==
    /\ pc = "raised"
    /\ err = "OSError"
    /\ 1 < idx /\ idx <= Len(paths)
    /\ tmpCreated = 1
    /\ ~tmp.exists

\* C2: every validation failure (the source is missing or no directory, the
\* archive name holds a path separator, the lowercased format is not
\* supported) is raised before any side effect: no Staging Root was created,
\* no file was written, the directories are as they were.  A format that
\* differs from a supported one only by letter case is accepted.
C2_ValidationBeforeEffects ==
    /\ err = "ValueError" =>
          /\ tmpCreated = 0
          /\ ~tmp.exists
          /\ fs = fs0
          /\ archive = NoArchive
          /\ archive_path = NoPath
    /\ Terminated =>
          /\ PlaceKind(directory) # "dir" => err = "ValueError"
          /\ archive_name.some /\ Contains(archive_name.val, SEP) =>
                err = "ValueError"
          /\ Lower(archive_format) \notin supported => err = "ValueError"
          /\ (/\ Lower(archive_format) \in supported
              /\ PlaceKind(directory) = "dir"
              /\ ~archive_name.some) => err # "ValueError"

\* the name "a/b" was refused, the directory and the format being acceptable
C2_Witness ==
    /\ pc = "raised"
    /\ err = "ValueError"
    /\ archive_name = Name(<<97, 47, 98>>)
    /\ PlaceKind(directory) = "dir"
    /\ Lower(archive_format) \in supported
    /\ fs = fs0

\* C3 as stated: when the packer is invoked the paths under the Staging Root
\* are exactly the matched entries that are a regular file, a directory or a
\* symbolic link; no unmatched entry, not even the parent directory of a
\* matched one, is present.
C3_StagedEqualsMatched == AtPack => DOMAIN tmp.tree = MatchedStageable

\* C3 as amended: when the packer is invoked the paths under the Staging Root
\* are exactly the matched entries that are a regular file, a directory or a
\* symbolic link, together with the directories above every matched entry;
\* nothing else is present, and no matched file, directory or link is missing.
C3_StagedEqualsMatchedAndParents ==
    AtPack => DOMAIN tmp.tree = MatchedStageable \cup MatchedAncestors

\* sub/n.md is matched by "*.md" and sub is matched by no pattern, yet staged
C3_Witness ==
    /\ AtPack
    /\ patterns = << <<42, 46, 109, 100>> >>
    /\ << <<115, 117, 98>>, <<110, 46, 109, 100>> >> \in MatchSet
    /\ << <<115, 117, 98>> >> \notin MatchSet
    /\ << <<115, 117, 98>> >> \in DOMAIN tmp.tree

\* the orders in which the same patterns can be given
Reorderings(seq) ==
    {[i \in 1..Len(seq) |-> seq[f[i]]] :
        f \in {g \in [1..Len(seq) -> 1..Len(seq)] :
                  \A i, j \in 1..Len(seq) : g[i] = g[j] => i = j}}

\* C4: the Ordered Match List is strictly ascending by the string form of the
\* relative paths, holds exactly the matched entries, and is the same for
\* every order of the patterns and every iteration order of the match set;
\* so is the staged tree the packer is given.
C4_OrderedAndDeterministic ==
    pc = "stage" =>
       /\ \A i \in 1..(Len(paths) - 1) :
             StrLess(RelStr(paths[i]), RelStr(paths[i + 1]))
       /\ {paths[i] : i \in 1..Len(paths)} = MatchSet
       /\ \A ps \in Reorderings(patterns) : \A o \in ScanOrders :
             /\ OrderedMatchList(Source0, ps, o) = paths
             /\ AtPack =>
                   tmp.tree =
                      StageAll(Source0, EmptyTree, OrderedMatchList(Source0, ps, o))

\* two different patterns match a common entry, and the set yields the
\* matches in an order that is not the sorted one
C4_Witness ==
    /\ AtPack
    /\ Len(patterns) = 2
    /\ patterns[1] # patterns[2]
    /\ rglob(Source0, patterns[1]) \cap rglob(Source0, patterns[2]) # {}
    /\ Len(paths) >= 2
    /\ IterateSet(MatchSet, order) # paths

BuildFile == <<ArchiveFile(base_name, archive_format)>>

\* C6 as stated: the entries under the source directory and their contents
\* are the same after the call as before it, also when the source directory
\* is the current working directory.
C6_SourceUnchanged ==
    PlaceKind(directory) = "dir" => fs[directory] = fs0[directory]

\* C6 as amended: the only entry under the source directory that the call
\* adds or changes is the archive file it writes, and it does so only when
\* the current working directory is the source directory; every other entry
\* is the same after the call as before it.
C6_SourceUnchangedButArchive ==
    PlaceKind(directory) = "dir" =>
       \A p \in DOMAIN fs[directory] \cup DOMAIN fs0[directory] :
          \/ /\ p \in DOMAIN fs[directory]
             /\ p \in DOMAIN fs0[directory]
             /\ fs[directory][p] = fs0[directory][p]
          \/ /\ cwd = directory
             /\ pc \in {"returned", "raised", "exit"}
             /\ PastValidation
             /\ p = BuildFile

\* the call returned with the source directory as the working directory: the
\* archive is a new entry of the source directory
C6_Witness ==
    /\ pc = "returned"
    /\ cwd = directory
    /\ BuildFile \in DOMAIN fs[directory]
    /\ BuildFile \notin DOMAIN fs0[directory]
    /\ \A p \in DOMAIN fs0[directory] : fs[directory][p] = fs0[directory][p]

\* C7: an archive build has no partial success.  When create_archive has
\* returned, the archive file exists in the working directory and holds every
\* staged entry; when it has raised, the working directory holds no archive
\* file of this build.
C7_NoPartialArchive ==
    /\ pc = "returned" =>
          /\ BuildFile \in DOMAIN fs[cwd]
          /\ archive.complete
          /\ {archive.members[i] : i \in 1..Len(archive.members)}
                = MatchedStageable \cup MatchedAncestors
    /\ pc = "raised" => DOMAIN fs[cwd] = DOMAIN fs0[cwd]

\* C8: without archive_name the base name is the 14-digit UTC timestamp, an
\* underscore and the whole final component of the source directory's path;
\* with an accepted archive_name it is that name unchanged, and the archive is
\* the file of that name and the format's extension in the working directory.
C8_BaseName ==
    pc \in {"stage", "returned"} =>
       /\ ~archive_name.some =>
             /\ Len(utctimestamp(now)) = 14
             /\ base_name =
                   utctimestamp(now) \o <<95>> \o PlaceName(directory, dname)
       /\ archive_name.some => base_name = archive_name.val
       /\ pc = "returned" =>
             /\ archive_path.place = cwd
             /\ archive_path.file = base_name \o Extension(Lower(archive_format))
             /\ <<archive_path.file>> \in DOMAIN fs[cwd]

\* the directory the command works on
CliDirectory == IF directory_path = "none" THEN cwd ELSE directory_path

\* C10: the create-archive command ends in exactly one of three ways.  Exit
\* code 2 with a message on standard error, and no call of the builder, when
\* the directory is missing or no directory; exit code 0 with the archive
\* path printed when the builder returns; exit code 1 with a message on
\* standard error when the builder raises (a refused name, an unsupported
\* format, an I/O failure).
C10_CliOutcomes ==
    /\ viaCli /\ pc # "exit" => exit_code = -1
    /\ pc = "exit" =>
          IF PlaceKind(CliDirectory) # "dir"
          THEN /\ exit_code = 2
               /\ stderr \in {"Directory not found", "Not a directory"}
               /\ stdout = NoPath
               /\ calls = 0
               /\ tmpCreated = 0
          ELSE IF /\ Lower(archive_format) \in supported
                  /\ ~(archive_name.some /\ Contains(archive_name.val, SEP))
                  /\ err # "OSError"
          THEN /\ exit_code = 0
               /\ stdout = archive_path
               /\ stdout.place = cwd
               /\ stderr = "none"
               /\ calls = 1
          ELSE /\ exit_code = 1
               /\ stderr = "Failed to create archive."
               /\ stdout = NoPath
               /\ calls = 1

\* the command was given no directory, the working directory was archived,
\* and the packer failed: exit code 1
C10_Witness ==
    /\ pc = "exit"
    /\ directory_path = "none"
    /\ err = "OSError"
    /\ exit_code = 1
    /\ calls = 1

----------------------------------------------------------------------------
(* Properties of confirm                                                   *)

\* a reply as the claim reads it: trimmed and lowercased
Normal(raw) == Lower(Strip(raw))

\* "y", "yes", "t", "true", "on", "1"
SaysYes(raw) ==
    Normal(raw) \in {<<121>>, <<121, 101, 115>>, <<116>>, <<116, 114, 117, 101>>,
                     <<111, 110>>, <<49>>}

\* "n", "no", "f", "false", "off", "0"
SaysNo(raw) ==
    Normal(raw) \in {<<110>>, <<110, 111>>, <<102>>, <<102, 97, 108, 115, 101>>,
                     <<111, 102, 102>>, <<48>>}

\* the reply ends the prompt: a token, or nothing when a default is set
Decides(raw) ==
    SaysYes(raw) \/ SaysNo(raw) \/ (Normal(raw) = <<>> /\ default.some)

\* C9: with a default of None, "yes" or "no", confirm reads replies one at a
\* time, trimmed and lowercased; it returns True on the first reply that is a
\* true token, False on the first that is a false token, and (default ==
\* "yes") on an empty reply when a default is set; every other reply prints
\* the reminder and is followed by another prompt.  Any other default raises
\* before a reply is read.
C9_ConfirmLoop ==
    /\ cpc = "raised" =>
          /\ default \notin {NoName, Name(<<121, 101, 115>>), Name(<<110, 111>>)}
          /\ replies = <<>>
          /\ reminders = 0
    /\ cpc \in {"loop", "returned"} =>
          default \in {NoName, Name(<<121, 101, 115>>), Name(<<110, 111>>)}
    /\ cpc = "loop" =>
          /\ \A i \in 1..Len(replies) : ~Decides(replies[i])
          /\ reminders = Len(replies)
    /\ cpc = "returned" =>
          /\ replies # <<>>
          /\ \A i \in 1..(Len(replies) - 1) : ~Decides(replies[i])
          /\ Decides(replies[Len(replies)])
          /\ reminders = Len(replies) - 1
          /\ cresult =
                (\/ SaysYes(replies[Len(replies)])
                 \/ /\ Normal(replies[Len(replies)]) = <<>>
                    /\ default = Name(<<121, 101, 115>>))

\* without a default, "   " was answered by the reminder and " Y " by True
C9_Witness ==
    /\ cpc = "returned"
    /\ default = NoName
    /\ replies = << <<32, 32, 32>>, <<32, 89, 32>> >>
    /\ reminders = 1
    /\ cresult = TRUE

----------------------------------------------------------------------------
(* Properties of delete_local_branches and delete_remote_branch_refs       *)

\* the refs the repository had when the call began, those it has now
Listed0 == IF pfun = "remote" THEN remotes0 ELSE branches0
ListedNow == IF pfun = "remote" THEN remotes ELSE branches

\* the branch name of a ref: for a remote ref, what follows the remote prefix
BranchOf(r) == IF pfun = "remote" THEN AfterFirstSep(r, r) ELSE r

\* a ref the pass must leave alone: protected, or the checked-out branch
Spared(r) == BranchOf(r) \in PROTECTED_BRANCHES \cup {current}

\* C11: a protected or checked-out branch is never deleted, no delete stops
\* the pass, and when the pass is over a delete command has been issued for
\* exactly the listed branches that are neither protected nor checked out
C11_DeletesListedMinusSpared ==
    /\ \A r \in Listed0 \ ListedNow : ~Spared(r)
    /\ ppc # "aborted"
    /\ ppc = "done" =>
        {issued[i] : i \in 1..Len(issued)}
            = {<<r>> : r \in {x \in Listed0 : ~Spared(x)}}

----------------------------------------------------------------------------
(* Properties of clear_cache                                               *)

\* the directory names that mark a virtual environment
VenvMarkers == {venv, DOT \o venv}

\* the entry's name is a cache directory name or matches a cache file glob
CacheName(p) ==
    \/ \E i \in 1..Len(CACHE_DIRECTORIES) : p[Len(p)] = CACHE_DIRECTORIES[i]
    \/ \E i \in 1..Len(CACHE_FILE_EXTENSIONS) :
          FnMatch(CACHE_FILE_EXTENSIONS[i], p[Len(p)])

\* a segment of the entry's path is a virtual-environment marker
InVenv(p) == \E i \in 1..Len(sroot \o p) : (sroot \o p)[i] \in VenvMarkers

\* the entry is to be deleted: a cache name outside every virtual environment
Doomed(p) == CacheName(p) /\ ~InVenv(p)

\* C12: when clear_cache has returned, the entries gone from below root are
\* those with a cache name and no virtual-environment marker among their path
\* segments, and what lay inside such a directory
C12_DeletesCacheOutsideVenv ==
    spc = "done" =>
        \A p \in DOMAIN stree0 :
            p \notin DOMAIN stree
                <=> \E k \in 1..Len(p) : Doomed(SubSeq(p, 1, k))

====
